---- MODULE Spec2Model ----
(***************************************************************************)
(* A model of LocalTimeGroupBot.py: a Telegram bot that replies with the   *)
(* current local time of every member of a team roster.                    *)
(*                                                                         *)
(* Text is modelled as a sequence of fragments whose concatenation is the  *)
(* Python string.  Strings that come from the configuration file and the   *)
(* strings built by strftime are sequences of one-character fragments; the *)
(* fixed message templates of BotConfig are one fragment each.  Cyrillic   *)
(* literals of the source are transliterated to ASCII.                     *)
(***************************************************************************)
EXTENDS Integers, Sequences, FiniteSets, TLC

VARIABLES
    env_token,      \* os.getenv("BOT_TOKEN") as main() will read it
    file,           \* the state of team_members.json on disk
    now,            \* the system clock: minute of the day, UTC
    ticks,          \* how many times the clock has advanced
    pc,             \* position of main()
    steps,          \* the steps main() has executed so far
    exit_code,      \* process exit status (-1 while running)
    log,            \* the kinds of log records emitted
    team_members,   \* LocalTimeBot.team_members (main's team_members)
    handlers,       \* commands registered on the dispatcher
    tasks,          \* the handler invocations in flight, one per slot
    delivered,      \* number of command events dispatched so far
    probe           \* input and result of a direct get_local_time() call

vars == <<env_token, file, now, ticks, pc, steps, exit_code, log,
          team_members, handlers, tasks, delivered, probe>>

(***************************************************************************)
(* Bounds of the model.                                                    *)
(***************************************************************************)
MaxRecords == 2     \* longest list of records in the configuration file
MaxTasks == 2       \* handler invocations in flight at once
MaxEvents == 2      \* command events dispatched in one run
MaxTicks == 1       \* clock advances in one run

MinutesPerDay == 1440

(***************************************************************************)
(* Python values as json.load produces them.  Every value has the same     *)
(* fields; t is the type and only the field of that type is meaningful.    *)
(***************************************************************************)
JV(t, n, s, items, pairs) ==
    [t |-> t, n |-> n, s |-> s, items |-> items, pairs |-> pairs]

JNull == JV("null", 0, <<>>, <<>>, <<>>)
JBool(b) == JV("bool", IF b THEN 1 ELSE 0, <<>>, <<>>, <<>>)
JNum(n) == JV("num", n, <<>>, <<>>, <<>>)
JStr(s) == JV("str", 0, s, <<>>, <<>>)
JList(items) == JV("list", 0, <<>>, items, <<>>)
JObj(pairs) == JV("obj", 0, <<>>, <<>>, pairs)

Pair(k, v) == [k |-> k, v |-> v]

(***************************************************************************)
(* String literals of the source, one character per fragment.              *)
(***************************************************************************)
K_name == <<"n", "a", "m", "e">>
K_city == <<"c", "i", "t", "y">>
K_timezone == <<"t", "i", "m", "e", "z", "o", "n", "e">>

UTC == <<"U", "T", "C">>
Asia_Irkutsk == <<"A", "s", "i", "a", "/", "I", "r", "k", "u", "t", "s", "k">>
Asia_Yekaterinburg ==
    <<"A", "s", "i", "a", "/", "Y", "e", "k", "a", "t", "e", "r", "i", "n",
      "b", "u", "r", "g">>
Europe_Volgograd ==
    <<"E", "u", "r", "o", "p", "e", "/", "V", "o", "l", "g", "o", "g", "r",
      "a", "d">>
Europe_Moscow ==
    <<"E", "u", "r", "o", "p", "e", "/", "M", "o", "s", "c", "o", "w">>
Europe_Madrid ==
    <<"E", "u", "r", "o", "p", "e", "/", "M", "a", "d", "r", "i", "d">>
Asia_Kolkata == <<"A", "s", "i", "a", "/", "K", "o", "l", "k", "a", "t", "a">>
America_New_York ==
    <<"A", "m", "e", "r", "i", "c", "a", "/", "N", "e", "w", "_", "Y", "o",
      "r", "k">>
Bogus_Zone == <<"B", "o", "g", "u", "s", "/", "Z", "o", "n", "e">>

(***************************************************************************)
(* BotConfig.                                                              *)
(***************************************************************************)
CMD_LOCAL_TIME == "localtime"
CMD_HELP == "help"
CMD_START == "start"
Commands == {CMD_LOCAL_TIME, CMD_HELP, CMD_START}

MESSAGE_HEADER == <<>>
HELP_MESSAGE ==
    <<"\n<b>Time Zone Bot Help</b>\nAvailable commands:\n* /localTime - Shows the current local time for all team members\n* /help - Shows this help message\nThis bot helps you coordinate with team members across different time zones.\n">>
WELCOME_MESSAGE ==
    <<"\n<b>Welcome to the Time Zone Bot!</b>\nThis bot helps you coordinate with team members across different time zones.\nUse /localTime to see the current time for all team members.\nUse /help for more information.\n">>
ERROR_MESSAGE == <<"Sorry, an error occurred while processing your request.">>
UNKNOWN_TIMEZONE == <<"Unknown timezone">>

(***************************************************************************)
(* The timezone database behind pytz.timezone(): the identifiers the model *)
(* knows, with their offset from UTC in minutes.                           *)
(***************************************************************************)
TzNames ==
    {UTC, Asia_Irkutsk, Asia_Yekaterinburg, Europe_Volgograd, Europe_Moscow,
     Europe_Madrid, Asia_Kolkata, America_New_York}

TzOffset(z) ==
    CASE z = UTC -> 0
      [] z = Asia_Irkutsk -> 480
      [] z = Asia_Yekaterinburg -> 300
      [] z = Europe_Volgograd -> 180
      [] z = Europe_Moscow -> 180
      [] z = Europe_Madrid -> 60
      [] z = Asia_Kolkata -> 330
      [] z = America_New_York -> 0 - 300

(***************************************************************************)
(* pytz.timezone(zone): None and any string that is not an identifier of   *)
(* the database raise UnknownTimeZoneError; a value of another type has no *)
(* upper() and raises AttributeError.                                      *)
(***************************************************************************)
pytz_timezone(zone) ==
    CASE zone.t = "null" -> "UnknownTimeZoneError"
      [] zone.t = "str" /\ zone.s \in TzNames -> "ok"
      [] zone.t = "str" /\ zone.s \notin TzNames -> "UnknownTimeZoneError"
      [] OTHER -> "AttributeError"

Digit(d) == <<"0", "1", "2", "3", "4", "5", "6", "7", "8", "9">>[d + 1]

\* strftime("%H:%M") of a wall-clock minute of the day
strftime(local) ==
    <<Digit((local \div 60) \div 10), Digit((local \div 60) % 10), ":",
      Digit((local % 60) \div 10), Digit((local % 60) % 10)>>

\* datetime.now(tz) at clock reading t, as a minute of the day in zone z
datetime_now(z, t) == (t + TzOffset(z) + MinutesPerDay) % MinutesPerDay

\* Mutant of get_local_time: no except clause, UnknownTimeZoneError escapes.
get_local_time_uncaught(member, t) ==
    IF pytz_timezone(member.timezone) = "ok"
    THEN [raised |-> FALSE, logged |-> FALSE,
          value |-> strftime(datetime_now(member.timezone.s, t))]
    ELSE [raised |-> TRUE, logged |-> FALSE, value |-> <<>>]

\* The except clause of get_local_time catches UnknownTimeZoneError only.
get_local_time(member, t) ==
    LET outcome == pytz_timezone(member.timezone) IN
    CASE outcome = "ok" ->
            [raised |-> FALSE, logged |-> FALSE,
             value |-> strftime(datetime_now(member.timezone.s, t))]
      [] outcome = "UnknownTimeZoneError" ->
            [raised |-> FALSE, logged |-> TRUE, value |-> UNKNOWN_TIMEZONE]
      [] OTHER ->
            [raised |-> TRUE, logged |-> FALSE, value |-> <<>>]

(***************************************************************************)
(* str.format() renders a field with str(): a string as itself, any other  *)
(* value by its Python text.                                               *)
(***************************************************************************)
RECURSIVE Digits(_)
Digits(n) == IF n < 10 THEN <<Digit(n)>>
             ELSE Digits(n \div 10) \o <<Digit(n % 10)>>

RECURSIVE PyRepr(_)
RECURSIVE ReprItems(_)
RECURSIVE ReprPairs(_)
ReprItems(items) ==
    IF items = <<>> THEN <<>>
    ELSE PyRepr(Head(items))
         \o (IF Len(items) > 1 THEN <<",", " ">> ELSE <<>>)
         \o ReprItems(Tail(items))
ReprPairs(pairs) ==
    IF pairs = <<>> THEN <<>>
    ELSE <<"'">> \o Head(pairs).k \o <<"'", ":", " ">> \o PyRepr(Head(pairs).v)
         \o (IF Len(pairs) > 1 THEN <<",", " ">> ELSE <<>>)
         \o ReprPairs(Tail(pairs))
PyRepr(v) ==
    CASE v.t = "null" -> <<"None">>
      [] v.t = "bool" -> IF v.n = 1 THEN <<"True">> ELSE <<"False">>
      [] v.t = "num" -> IF v.n < 0 THEN <<"-">> \o Digits(0 - v.n)
                        ELSE Digits(v.n)
      [] v.t = "str" -> <<"'">> \o v.s \o <<"'">>
      [] v.t = "list" -> <<"[">> \o ReprItems(v.items) \o <<"]">>
      [] v.t = "obj" -> <<"{">> \o ReprPairs(v.pairs) \o <<"}">>

PyStr(v) == IF v.t = "str" THEN v.s ELSE PyRepr(v)

\* BotConfig.MESSAGE_FORMAT.format(name=, city=, local_time=):
\* "{name}: {local_time}\n"; the template has no {city} field.
MESSAGE_FORMAT(name, city, local_time) ==
    PyStr(name) \o <<":", " ">> \o local_time \o <<"\n">>

(***************************************************************************)
(* TeamMember: a dataclass; its constructor stores the three arguments as  *)
(* given and checks no type.                                               *)
(***************************************************************************)
TeamMember(name, city, timezone) ==
    [name |-> name, city |-> city, timezone |-> timezone]

\* The default roster of load_team_members (Cyrillic transliterated).
DefaultTeamMembers ==
    <<TeamMember(JStr(<<"m", "a", "y", "e", "r">>),
                 JStr(<<"I", "r", "k", "u", "t", "s", "k">>),
                 JStr(Asia_Irkutsk)),
      TeamMember(JStr(<<"A", "n", "t", "o", "n", "i", "o", "_", "M", "a", "r",
                        "g", "a", "r", "e", "t", "t", "i">>),
                 JStr(<<"Z", "l", "a", "t", "o", "u", "s", "t">>),
                 JStr(Asia_Yekaterinburg)),
      TeamMember(JStr(<<"D", "e", "a", "d", "h", "o", "k", "o">>),
                 JStr(<<"V", "o", "l", "g", "o", "g", "r", "a", "d">>),
                 JStr(Europe_Volgograd)),
      TeamMember(JStr(<<"C", "h", "a", "i", "k", "o", "v", "s", "k", "i",
                        "y">>),
                 JStr(<<"M", "o", "s", "k", "v", "a">>),
                 JStr(Europe_Moscow)),
      TeamMember(JStr(<<"s", "e", "r", "e", "g", "a", "t", "i", "p", "i", "c",
                        "h">>),
                 JStr(<<"I", "s", "p", "a", "n", "i", "y", "a">>),
                 JStr(Europe_Madrid))>>

(***************************************************************************)
(* Python's iteration and subscription, as the list comprehension of       *)
(* load_team_members uses them.                                            *)
(***************************************************************************)
\* iter(v): a list yields its items, a dict its keys, a str its characters;
\* None, a bool and a number raise TypeError.
IsIterable(v) == v.t \in {"list", "obj", "str"}

Iter(v) ==
    CASE v.t = "list" -> v.items
      [] v.t = "obj" -> [i \in 1..Len(v.pairs) |-> JStr(v.pairs[i].k)]
      [] v.t = "str" -> [i \in 1..Len(v.s) |-> JStr(<<v.s[i]>>)]
      [] OTHER -> <<>>

\* m[key] with a str key succeeds on a dict that has the key; a dict without
\* it raises KeyError, any other value raises TypeError.
HasItem(m, key) ==
    m.t = "obj" /\ \E i \in 1..Len(m.pairs) : m.pairs[i].k = key

GetItem(m, key) ==
    m.pairs[CHOOSE i \in 1..Len(m.pairs) : m.pairs[i].k = key].v

\* Mutant of Comprehension: an item that raises is skipped and the rest kept.
RECURSIVE ComprehensionSkipping(_, _)
ComprehensionSkipping(items, acc) ==
    IF items = <<>> THEN [raised |-> FALSE, members |-> acc]
    ELSE LET m == Head(items) IN
         IF HasItem(m, K_name) /\ HasItem(m, K_city) /\ HasItem(m, K_timezone)
         THEN ComprehensionSkipping(Tail(items),
                  Append(acc, TeamMember(GetItem(m, K_name),
                                         GetItem(m, K_city),
                                         GetItem(m, K_timezone))))
         ELSE ComprehensionSkipping(Tail(items), acc)

\* [TeamMember(m["name"], m["city"], m["timezone"]) for m in members_data]:
\* the first item that raises abandons the whole comprehension.
RECURSIVE Comprehension(_, _)
Comprehension(items, acc) ==
    IF items = <<>> THEN [raised |-> FALSE, members |-> acc]
    ELSE LET m == Head(items) IN
         IF HasItem(m, K_name) /\ HasItem(m, K_city) /\ HasItem(m, K_timezone)
         THEN Comprehension(Tail(items),
                            Append(acc, TeamMember(GetItem(m, K_name),
                                                   GetItem(m, K_city),
                                                   GetItem(m, K_timezone))))
         ELSE [raised |-> TRUE, members |-> <<>>]

\* Whether the try block of load_team_members raises (open, json.load or the
\* comprehension); every exception is caught by "except Exception".
LoadRaises(f) ==
    \/ ~f.readable
    \/ ~f.parses
    \/ ~IsIterable(f.value)
    \/ Comprehension(Iter(f.value), <<>>).raised

\* Mutant of load_team_members: a record whose timezone is not in the
\* database is rejected at load time.
load_team_members_validating(f) ==
    IF /\ f.exists
       /\ ~LoadRaises(f)
       /\ \A k \in 1..Len(Comprehension(Iter(f.value), <<>>).members) :
             pytz_timezone(Comprehension(Iter(f.value), <<>>).members[k]
                           .timezone) = "ok"
    THEN Comprehension(Iter(f.value), <<>>).members
    ELSE DefaultTeamMembers

load_team_members(f) ==
    IF f.exists /\ ~LoadRaises(f)
    THEN Comprehension(Iter(f.value), <<>>).members
    ELSE DefaultTeamMembers

\* The log records load_team_members emits.
LoadLog(f) ==
    IF f.exists /\ ~LoadRaises(f) THEN {}
    ELSE (IF f.exists THEN {"load_error"} ELSE {}) \cup {"using_defaults"}

(***************************************************************************)
(* The states of team_members.json the model starts from.                  *)
(***************************************************************************)
Absent ==
    [exists |-> FALSE, readable |-> FALSE, parses |-> FALSE, value |-> JNull]
Unreadable ==
    [exists |-> TRUE, readable |-> FALSE, parses |-> FALSE, value |-> JNull]
Unparseable ==
    [exists |-> TRUE, readable |-> TRUE, parses |-> FALSE, value |-> JNull]
Parsed(v) ==
    [exists |-> TRUE, readable |-> TRUE, parses |-> TRUE, value |-> v]

N_A == <<"A">>
N_B == <<"B">>
L_X == <<"X">>
K_extra == <<"r", "o", "l", "e">>

\* A JSON object with the given fields; Missing leaves a field out.
Missing == JV("missing", 0, <<>>, <<>>, <<>>)
Opt(k, v) == IF v = Missing THEN <<>> ELSE <<Pair(k, v)>>
Obj(n, c, z, e) ==
    JObj(Opt(K_name, n) \o Opt(K_city, c) \o Opt(K_timezone, z)
         \o Opt(K_extra, e))

WellFormedRecords ==
    {Obj(JStr(n), JStr(L_X), JStr(z), Missing) :
        n \in {N_A, N_B}, z \in {UTC, Asia_Kolkata, Bogus_Zone}}
    \cup {Obj(JStr(N_A), JStr(L_X), JStr(America_New_York), JNum(1))}

IncompleteRecords ==
    {Obj(Missing, JStr(L_X), JStr(UTC), Missing),
     Obj(JStr(N_A), Missing, JStr(UTC), Missing),
     Obj(JStr(N_A), JStr(L_X), Missing, JNum(1))}

IllTypedRecords ==
    {Obj(JNum(7), JStr(L_X), JStr(UTC), Missing),
     Obj(JStr(N_A), JNull, JStr(UTC), Missing),
     Obj(JStr(N_A), JStr(L_X), JNum(5), Missing),
     Obj(JStr(N_A), JStr(L_X), JNull, Missing),
     Obj(JStr(N_A), JList(<<>>), JBool(TRUE), Missing)}

NonRecords == {JNull, JNum(3), JStr(N_A), JList(<<>>)}

Elements ==
    WellFormedRecords \cup IncompleteRecords \cup IllTypedRecords
    \cup NonRecords

FileValues ==
    {JNull, JNum(0), JBool(FALSE), JStr(<<>>), JStr(<<"x", "y">>),
     JObj(<<>>), Obj(JStr(N_A), JStr(L_X), JStr(UTC), Missing)}
    \cup {JList(s) : s \in UNION {[1..k -> Elements] : k \in 0..MaxRecords}}

FileStates ==
    {Absent, Unreadable, Unparseable} \cup {Parsed(v) : v \in FileValues}

\* The configuration files the full lifecycle is run with.
RunFiles ==
    {Absent,
     Parsed(JList(<<>>)),
     Parsed(JList(<<Obj(JStr(N_B), JStr(L_X), JStr(UTC), Missing),
                    Obj(JStr(N_A), JStr(L_X), JStr(Bogus_Zone), Missing)>>)),
     Parsed(JList(<<Obj(JStr(N_A), JStr(L_X), JStr(Asia_Kolkata), Missing),
                    Obj(JStr(N_A), JStr(L_X), JStr(Asia_Kolkata), Missing)>>)),
     Parsed(JList(<<Obj(JStr(N_A), JStr(L_X), JNum(5), Missing)>>)),
     Parsed(JList(<<Obj(JNum(7), JStr(L_X), JStr(America_New_York),
                        Missing)>>))}

Tokens == {"None", "", "123:abc"}      \* "None": the variable is not set

(***************************************************************************)
(* A handler invocation.                                                   *)
(***************************************************************************)
IdleTask ==
    [pc |-> "idle", cmd |-> "", i |-> 0, content |-> <<>>, times |-> <<>>,
     sends |-> <<>>]

NoProbe == [member |-> TeamMember(JNull, JNull, JNull), called |-> FALSE,
            result |-> [raised |-> FALSE, logged |-> FALSE, value |-> <<>>]]

InitCommon ==
    /\ ticks = 0
    /\ pc = "check_token"
    /\ steps = {}
    /\ exit_code = 0 - 1
    /\ log = {}
    /\ team_members = <<>>
    /\ handlers = {}
    /\ tasks = [t \in 1..MaxTasks |-> IdleTask]
    /\ delivered = 0

(***************************************************************************)
(* main().                                                                 *)
(***************************************************************************)
\* Mutant of CheckToken: "if bot_token is None", so an empty token passes.
CheckTokenNoneOnly ==
    /\ pc = "check_token"
    /\ IF env_token = "None"
       THEN /\ log' = log \cup {"token_missing"}
            /\ exit_code' = 1
            /\ pc' = "exited"
       ELSE /\ pc' = "load"
            /\ UNCHANGED <<log, exit_code>>
    /\ steps' = steps \cup {"check_token"}
    /\ UNCHANGED <<env_token, file, now, ticks, team_members, handlers, tasks,
                   delivered, probe>>

\* bot_token = os.getenv(...); if not bot_token: logger.error(...); exit(1)
CheckToken ==
    /\ pc = "check_token"
    /\ IF env_token \in {"None", ""}
       THEN /\ log' = log \cup {"token_missing"}
            /\ exit_code' = 1
            /\ pc' = "exited"
       ELSE /\ pc' = "load"
            /\ UNCHANGED <<log, exit_code>>
    /\ steps' = steps \cup {"check_token"}
    /\ UNCHANGED <<env_token, file, now, ticks, team_members, handlers, tasks,
                   delivered, probe>>

\* team_members = load_team_members()
LoadRoster ==
    /\ pc = "load"
    /\ team_members' = load_team_members(file)
    /\ log' = log \cup LoadLog(file)
    /\ pc' = "construct"
    /\ steps' = steps \cup {"load"}
    /\ UNCHANGED <<env_token, file, now, ticks, exit_code, handlers, tasks,
                   delivered, probe>>

\* bot = LocalTimeBot(bot_token, team_members): __init__ keeps the roster it
\* is given and registers the three command handlers.
_register_handlers == {CMD_LOCAL_TIME, CMD_HELP, CMD_START}

Construct ==
    /\ pc = "construct"
    /\ handlers' = _register_handlers
    /\ pc' = "start"
    /\ steps' = steps \cup {"construct"}
    /\ UNCHANGED <<env_token, file, now, ticks, exit_code, log, team_members,
                   tasks, delivered, probe>>

\* await bot.start(): logs and enters dp.start_polling
StartBot ==
    /\ pc = "start"
    /\ log' = log \cup {"starting"}
    /\ pc' = "polling"
    /\ steps' = steps \cup {"polling"}
    /\ UNCHANGED <<env_token, file, now, ticks, exit_code, team_members,
                   handlers, tasks, delivered, probe>>

\* start_polling raises: except Exception: log, await bot.stop(), exit(1).
\* The handler invocations in flight end with the process.
PollingError ==
    /\ pc = "polling"
    /\ log' = log \cup {"start_error", "stopping"}
    /\ exit_code' = 1
    /\ pc' = "exited"
    /\ tasks' = [t \in 1..MaxTasks |-> IdleTask]
    /\ UNCHANGED <<env_token, file, now, ticks, steps, team_members, handlers,
                   delivered, probe>>

\* KeyboardInterrupt ends asyncio.run(main()): "Bot stopped manually"
Interrupt ==
    /\ pc = "polling"
    /\ log' = log \cup {"stopped_manually"}
    /\ exit_code' = 0
    /\ pc' = "exited"
    /\ tasks' = [t \in 1..MaxTasks |-> IdleTask]
    /\ UNCHANGED <<env_token, file, now, ticks, steps, team_members, handlers,
                   delivered, probe>>

\* The system clock moves on by a minute.
Tick ==
    /\ pc # "exited"
    /\ ticks < MaxTicks
    /\ now' = (now + 1) % MinutesPerDay
    /\ ticks' = ticks + 1
    /\ UNCHANGED <<env_token, file, pc, steps, exit_code, log, team_members,
                   handlers, tasks, delivered, probe>>

(***************************************************************************)
(* The command handlers.  asyncio runs one handler at a time up to its     *)
(* next await: while a handler is inside format_local_time_message no      *)
(* other handler moves; the awaited message.reply calls interleave.        *)
(***************************************************************************)
NoneRunning == \A t \in 1..MaxTasks : tasks[t].pc # "format"

\* The roster format_local_time_message iterates: self.team_members.
FormatRoster == team_members

\* The dispatcher starts the handler registered for the command.  cmd_help
\* and cmd_start go straight to _send_reply with their fixed text;
\* cmd_local_time enters format_local_time_message.
Deliver(t, cmd) ==
    /\ pc = "polling"
    /\ cmd \in handlers
    /\ delivered < MaxEvents
    /\ NoneRunning
    /\ tasks[t].pc \in {"idle", "done", "raised"}
    /\ delivered' = delivered + 1
    /\ tasks' = [tasks EXCEPT ![t] =
         CASE cmd = CMD_LOCAL_TIME ->
                [pc |-> "format", cmd |-> cmd, i |-> 1,
                 content |-> MESSAGE_HEADER, times |-> <<>>, sends |-> <<>>]
           [] cmd = CMD_HELP ->
                [pc |-> "send", cmd |-> cmd, i |-> 0,
                 content |-> HELP_MESSAGE, times |-> <<>>, sends |-> <<>>]
           [] cmd = CMD_START ->
                [pc |-> "send", cmd |-> cmd, i |-> 0,
                 content |-> WELCOME_MESSAGE, times |-> <<>>, sends |-> <<>>]]
    /\ UNCHANGED <<env_token, file, now, ticks, pc, steps, exit_code, log,
                   team_members, handlers, probe>>

\* Mutant of FormatStep: the loop consumes the roster it iterates
\* (self.team_members.pop(0)).
FormatStepPopping(t) ==
    /\ pc = "polling"
    /\ tasks[t].pc = "format"
    /\ tasks[t].i <= Len(team_members)
    /\ LET member == Head(team_members)
           r == get_local_time(member, now)
       IN /\ ~r.raised
          /\ tasks' = [tasks EXCEPT
                ![t].content = tasks[t].content
                    \o MESSAGE_FORMAT(member.name, member.city, r.value),
                ![t].times = Append(tasks[t].times, r.value)]
          /\ team_members' = Tail(team_members)
    /\ UNCHANGED <<env_token, file, now, ticks, pc, steps, exit_code, log,
                   handlers, delivered, probe>>

\* One iteration of the loop of format_local_time_message: the member's
\* local time is resolved and its line appended.  An exception out of
\* get_local_time leaves the handler.
FormatStep(t) ==
    /\ pc = "polling"
    /\ tasks[t].pc = "format"
    /\ tasks[t].i <= Len(FormatRoster)
    /\ LET member == FormatRoster[tasks[t].i]
           r == get_local_time(member, now)
       IN IF r.raised
          THEN /\ tasks' = [tasks EXCEPT ![t].pc = "raised"]
               /\ log' = log
          ELSE /\ tasks' = [tasks EXCEPT
                     ![t].content = tasks[t].content
                         \o MESSAGE_FORMAT(member.name, member.city, r.value),
                     ![t].times = Append(tasks[t].times, r.value),
                     ![t].i = tasks[t].i + 1]
               /\ log' = IF r.logged THEN log \cup {"unknown_timezone"}
                         ELSE log
    /\ UNCHANGED <<env_token, file, now, ticks, pc, steps, exit_code,
                   team_members, handlers, delivered, probe>>

\* The loop is over: return response_text, and cmd_local_time awaits
\* _send_reply(message, response_text).
FormatReturn(t) ==
    /\ pc = "polling"
    /\ tasks[t].pc = "format"
    /\ tasks[t].i > Len(FormatRoster)
    /\ tasks' = [tasks EXCEPT ![t].pc = "send"]
    /\ UNCHANGED <<env_token, file, now, ticks, pc, steps, exit_code, log,
                   team_members, handlers, delivered, probe>>

Attempt(content, ok) == [content |-> content, ok |-> ok]

\* _send_reply, the try block: message.reply(content, parse_mode=) returns
ReplyOk(t) ==
    /\ pc = "polling"
    /\ NoneRunning
    /\ tasks[t].pc = "send"
    /\ tasks' = [tasks EXCEPT
           ![t].sends = Append(tasks[t].sends, Attempt(tasks[t].content, TRUE)),
           ![t].pc = "done"]
    /\ UNCHANGED <<env_token, file, now, ticks, pc, steps, exit_code, log,
                   team_members, handlers, delivered, probe>>

\* Mutant of ReplyFail: the failed send is retried with the same content.
ReplyFailRetry(t) ==
    /\ pc = "polling"
    /\ NoneRunning
    /\ tasks[t].pc = "send"
    /\ Len(tasks[t].sends) < 3
    /\ tasks' = [tasks EXCEPT
           ![t].sends = Append(tasks[t].sends, Attempt(tasks[t].content, FALSE))]
    /\ log' = log \cup {"send_error"}
    /\ UNCHANGED <<env_token, file, now, ticks, pc, steps, exit_code,
                   team_members, handlers, delivered, probe>>

\* _send_reply, the try block: message.reply raises; the except clause logs
\* and awaits message.reply(ERROR_MESSAGE)
ReplyFail(t) ==
    /\ pc = "polling"
    /\ NoneRunning
    /\ tasks[t].pc = "send"
    /\ tasks' = [tasks EXCEPT
           ![t].sends = Append(tasks[t].sends, Attempt(tasks[t].content, FALSE)),
           ![t].pc = "send_error"]
    /\ log' = log \cup {"send_error"}
    /\ UNCHANGED <<env_token, file, now, ticks, pc, steps, exit_code,
                   team_members, handlers, delivered, probe>>

\* _send_reply, the except clause: message.reply(ERROR_MESSAGE) returns
ErrorReplyOk(t) ==
    /\ pc = "polling"
    /\ NoneRunning
    /\ tasks[t].pc = "send_error"
    /\ tasks' = [tasks EXCEPT
           ![t].sends = Append(tasks[t].sends, Attempt(ERROR_MESSAGE, TRUE)),
           ![t].pc = "done"]
    /\ UNCHANGED <<env_token, file, now, ticks, pc, steps, exit_code, log,
                   team_members, handlers, delivered, probe>>

\* _send_reply, the except clause: message.reply(ERROR_MESSAGE) raises, and
\* nothing catches it: the exception leaves _send_reply and the handler.
ErrorReplyFail(t) ==
    /\ pc = "polling"
    /\ NoneRunning
    /\ tasks[t].pc = "send_error"
    /\ tasks' = [tasks EXCEPT
           ![t].sends = Append(tasks[t].sends, Attempt(ERROR_MESSAGE, FALSE)),
           ![t].pc = "raised"]
    /\ UNCHANGED <<env_token, file, now, ticks, pc, steps, exit_code, log,
                   team_members, handlers, delivered, probe>>

Init ==
    /\ InitCommon
    /\ env_token \in Tokens
    /\ file \in RunFiles
    /\ now = MinutesPerDay - 1         \* 23:59 UTC
    /\ probe = NoProbe

Next ==
    \/ CheckToken
    \/ LoadRoster
    \/ Construct
    \/ StartBot
    \/ PollingError
    \/ Interrupt
    \/ Tick
    \/ \E t \in 1..MaxTasks :
        \/ \E cmd \in Commands : Deliver(t, cmd)
        \/ FormatStep(t)
        \/ FormatReturn(t)
        \/ ReplyOk(t)
        \/ ReplyFail(t)
        \/ ErrorReplyOk(t)
        \/ ErrorReplyFail(t)

Spec == Init /\ [][Next]_vars

(***************************************************************************)
(* load_team_members() over every modelled state of the configuration      *)
(* file: main() from its start to the loaded roster.                       *)
(***************************************************************************)
InitLoad ==
    /\ InitCommon
    /\ env_token \in Tokens
    /\ file \in FileStates
    /\ now = 0
    /\ probe = NoProbe

NextLoad == CheckToken \/ LoadRoster

SpecLoad == InitLoad /\ [][NextLoad]_vars

(***************************************************************************)
(* TeamMember.get_local_time() called directly, at every minute of the day *)
(* and for identifiers inside and outside the timezone database.           *)
(***************************************************************************)
Not_AZone == <<"N", "o", "t", "/", "A", "Z", "o", "n", "e">>

TzInputs == TzNames \cup {Bogus_Zone, Not_AZone, <<>>, <<"u", "t", "c", "+">>}

Resolve ==
    /\ ~probe.called
    /\ probe' = [probe EXCEPT !.called = TRUE,
                              !.result = get_local_time(probe.member, now)]
    /\ UNCHANGED <<env_token, file, now, ticks, pc, steps, exit_code, log,
                   team_members, handlers, tasks, delivered>>

InitResolve ==
    /\ InitCommon
    /\ env_token = "123:abc"
    /\ file = Absent
    /\ now \in 0..(MinutesPerDay - 1)
    /\ probe \in {[NoProbe EXCEPT !.member =
                       TeamMember(JStr(N_A), JStr(L_X), JStr(z))] :
                  z \in TzInputs}

NextResolve == Resolve \/ Tick

SpecResolve == InitResolve /\ [][NextResolve]_vars

(***************************************************************************)
(* The claims.                                                             *)
(***************************************************************************)
\* Whether main() has assigned team_members
Loaded == "load" \in steps

\* Whether value v is a record carrying name, city and timezone
IsRecord(v) ==
    HasItem(v, K_name) /\ HasItem(v, K_city) /\ HasItem(v, K_timezone)

\* C1: the roster returned by load_team_members() has at least one member,
\* whatever the state of the configuration file.
C1_RosterNeverEmpty == Loaded => Len(team_members) >= 1

\* C2: no pattern of transport send failures makes an exception leave a
\* command handler: a handler that has attempted a send never ends by
\* raising.
C2_NoSendFailureEscapes ==
    \A t \in 1..MaxTasks : tasks[t].sends # <<>> => tasks[t].pc # "raised"

\* A text of five characters HH:MM, HH in 00..23 and MM in 00..59
DigitValue(c) == CHOOSE d \in 0..9 : Digit(d) = c
IsDigit(c) == \E d \in 0..9 : Digit(d) = c
IsHHMM(v) ==
    /\ Len(v) = 5
    /\ v[3] = ":"
    /\ \A k \in {1, 2, 4, 5} : IsDigit(v[k])
    /\ 10 * DigitValue(v[1]) + DigitValue(v[2]) \in 0..23
    /\ 10 * DigitValue(v[4]) + DigitValue(v[5]) \in 0..59

\* C3: get_local_time() of a timezone string outside the database returns
\* exactly "Unknown timezone" and does not raise; of a string inside it, a
\* zero-padded HH:MM with HH in 00..23 and MM in 00..59.
C3_ResolveTotal ==
    probe.called =>
        /\ ~probe.result.raised
        /\ probe.member.timezone.s \notin TzNames
              => probe.result.value = UNKNOWN_TIMEZONE
        /\ probe.member.timezone.s \in TzNames
              => IsHHMM(probe.result.value)

C3_Witness ==
    /\ probe.called
    /\ probe.member.timezone.s = Not_AZone
    /\ probe.result.value = UNKNOWN_TIMEZONE
    /\ probe.result.logged

\* The files the claim names as failures, the documented default roster,
\* and a roster that is the file's records one for one
FileFails(f) ==
    \/ ~f.exists
    \/ ~f.readable
    \/ ~f.parses
    \/ /\ f.value.t = "list"
       /\ \E k \in 1..Len(f.value.items) :
             f.value.items[k].t = "obj" /\ ~IsRecord(f.value.items[k])

IsDefaultRoster(r) ==
    /\ Len(r) = 5
    /\ [k \in 1..5 |-> r[k].name.s] =
          <<<<"m", "a", "y", "e", "r">>,
            <<"A", "n", "t", "o", "n", "i", "o", "_", "M", "a", "r", "g",
              "a", "r", "e", "t", "t", "i">>,
            <<"D", "e", "a", "d", "h", "o", "k", "o">>,
            <<"C", "h", "a", "i", "k", "o", "v", "s", "k", "i", "y">>,
            <<"s", "e", "r", "e", "g", "a", "t", "i", "p", "i", "c", "h">>>>
    /\ [k \in 1..5 |-> r[k].timezone.s] =
          <<Asia_Irkutsk, Asia_Yekaterinburg, Europe_Volgograd,
            Europe_Moscow, Europe_Madrid>>
    /\ [k \in 1..5 |-> r[k].city.s] =
          <<<<"I", "r", "k", "u", "t", "s", "k">>,
            <<"Z", "l", "a", "t", "o", "u", "s", "t">>,
            <<"V", "o", "l", "g", "o", "g", "r", "a", "d">>,
            <<"M", "o", "s", "k", "v", "a">>,
            <<"I", "s", "p", "a", "n", "i", "y", "a">>>>
    /\ \A k \in 1..5 : {r[k].name.t, r[k].city.t, r[k].timezone.t} = {"str"}

IsFileRoster(r, f) ==
    /\ f.exists /\ f.readable /\ f.parses
    /\ IsIterable(f.value)
    /\ Len(r) = Len(Iter(f.value))
    /\ \A k \in 1..Len(r) :
          /\ IsRecord(Iter(f.value)[k])
          /\ r[k].name = GetItem(Iter(f.value)[k], K_name)
          /\ r[k].city = GetItem(Iter(f.value)[k], K_city)
          /\ r[k].timezone = GetItem(Iter(f.value)[k], K_timezone)

\* C4: the loaded roster is all-or-nothing: either one member per item of
\* the parsed file, each built from that item's name, city and timezone, or
\* exactly the 5-entry default roster in its fixed order; and a file that is
\* missing, unreadable, not parseable or holds a record lacking a field
\* gives the default roster.
C4_AllOrNothing ==
    Loaded =>
        /\ IsDefaultRoster(team_members) \/ IsFileRoster(team_members, file)
        /\ FileFails(file) => IsDefaultRoster(team_members)

\* a file whose second record lacks "city" gave the full default roster
C4_Witness ==
    /\ Loaded
    /\ file.value.t = "list"
    /\ Len(file.value.items) = 2
    /\ IsRecord(file.value.items[1])
    /\ file.value.items[2].t = "obj"
    /\ ~HasItem(file.value.items[2], K_city)
    /\ team_members = DefaultTeamMembers

\* C5: every member of a loaded roster has a string name, city and
\* timezone: a record with a value of another type makes the load fall back.
C5_FieldsAreStrings ==
    Loaded =>
        \A k \in 1..Len(team_members) :
            /\ team_members[k].name.t = "str"
            /\ team_members[k].city.t = "str"
            /\ team_members[k].timezone.t = "str"

\* C6: with BOT_TOKEN absent or empty, main() only ever checks the token:
\* it logs the diagnostic and exits with status 1, and the roster is never
\* loaded, the bot never constructed, no handler registered, polling never
\* started and no command handled.
C6_MissingTokenIsFatal ==
    env_token \in {"None", ""} =>
        /\ steps \subseteq {"check_token"}
        /\ pc \in {"check_token", "exited"}
        /\ pc = "exited" => exit_code = 1 /\ log = {"token_missing"}
        /\ pc = "check_token" => exit_code = 0 - 1 /\ log = {}
        /\ team_members = <<>>
        /\ handlers = {}
        /\ delivered = 0
        /\ \A t \in 1..MaxTasks : tasks[t] = IdleTask

C6_Witness ==
    /\ env_token = ""
    /\ pc = "exited"
    /\ exit_code = 1
    /\ "token_missing" \in log

\* The text the claim describes, and where a /localtime handler stands
RECURSIVE Lines(_, _)
Lines(roster, times) ==
    IF roster = <<>> THEN <<>>
    ELSE PyStr(Head(roster).name) \o <<":", " ">> \o Head(times) \o <<"\n">>
         \o Lines(Tail(roster), Tail(times))

Formatted(t) ==
    /\ tasks[t].cmd = CMD_LOCAL_TIME
    /\ tasks[t].pc \in {"send", "send_error", "done"}

RaisedInFormat(t) ==
    /\ tasks[t].cmd = CMD_LOCAL_TIME
    /\ tasks[t].pc = "raised"
    /\ tasks[t].sends = <<>>

\* C7: for every roster the program can hold, format_local_time_message()
\* returns: it does not raise, and its text is the concatenation, in roster
\* order, of one line "{name}: {time}\n" per member, where {time} is what
\* get_local_time() returned for that member.
C7_FormatAllLines ==
    \A t \in 1..MaxTasks :
        /\ ~RaisedInFormat(t)
        /\ Formatted(t) =>
              /\ Len(tasks[t].times) = Len(team_members)
              /\ tasks[t].content = Lines(team_members, tasks[t].times)

\* The same statement on rosters whose timezones are strings or None,
\* which the code satisfies.
C7_FormatAllLinesTyped ==
    (\A k \in 1..Len(team_members) :
        team_members[k].timezone.t \in {"str", "null"}) =>
    C7_FormatAllLines

\* C8: a file that parses as a list of records, each carrying name, city
\* and timezone, loads as one member per record, in file order, with the
\* three values unchanged, whatever the timezone strings are and whatever
\* other fields the records carry.
C8_RecordsLoadedInOrder ==
    (/\ Loaded
     /\ file.exists /\ file.readable /\ file.parses
     /\ file.value.t = "list"
     /\ \A k \in 1..Len(file.value.items) : IsRecord(file.value.items[k]))
    =>
    /\ Len(team_members) = Len(file.value.items)
    /\ \A k \in 1..Len(team_members) :
          team_members[k] =
              [name |-> GetItem(file.value.items[k], K_name),
               city |-> GetItem(file.value.items[k], K_city),
               timezone |-> GetItem(file.value.items[k], K_timezone)]

\* two records, the first with an unknown timezone, the second with an
\* extra field, both kept in order
C8_Witness ==
    /\ Loaded
    /\ file.parses
    /\ file.value.t = "list"
    /\ Len(file.value.items) = 2
    /\ IsRecord(file.value.items[1]) /\ IsRecord(file.value.items[2])
    /\ HasItem(file.value.items[2], K_extra)
    /\ Len(team_members) = 2
    /\ team_members[1].name.s = N_B
    /\ team_members[1].timezone.s = Bogus_Zone
    /\ team_members[2].timezone.s = America_New_York

\* C9: once loaded, the roster the bot holds is what load_team_members()
\* returned, whatever commands have been handled and however their
\* handlers interleaved.
C9_RosterReadOnly == Loaded => team_members = load_team_members(file)

\* two handlers in flight at once, one of them after a failed send
C9_Witness ==
    /\ Loaded
    /\ team_members # <<>>
    /\ \E t1, t2 \in 1..MaxTasks :
          /\ t1 # t2
          /\ tasks[t1].cmd = CMD_LOCAL_TIME
          /\ tasks[t1].pc = "send_error"
          /\ tasks[t2].cmd = CMD_LOCAL_TIME
          /\ tasks[t2].pc = "done"
          /\ tasks[t1].content # tasks[t2].content

\* C10: a handler makes at most two send attempts: the first carries the
\* command's content; if it succeeds nothing else is sent; if it fails the
\* only further attempt carries the generic error message.
C10_BoundedSendPath ==
    \A t \in 1..MaxTasks :
        LET s == tasks[t].sends IN
        /\ Len(s) <= 2
        /\ Len(s) >= 1 => s[1].content = tasks[t].content
        /\ (Len(s) >= 1 /\ s[1].ok) => Len(s) = 1 /\ tasks[t].pc = "done"
        /\ Len(s) = 2 =>
              /\ ~s[1].ok
              /\ s[2].content = ERROR_MESSAGE
              /\ s[2].content # s[1].content
        /\ (Len(s) = 1 /\ ~s[1].ok) => tasks[t].pc = "send_error"
        /\ tasks[t].pc = "done" => Len(s) >= 1 /\ s[Len(s)].ok
        /\ tasks[t].pc = "send" => s = <<>>

C10_Witness ==
    \E t \in 1..MaxTasks :
        /\ tasks[t].pc = "done"
        /\ Len(tasks[t].sends) = 2
        /\ ~tasks[t].sends[1].ok
        /\ tasks[t].sends[2].ok
        /\ tasks[t].sends[2].content = ERROR_MESSAGE

====
